---- MODULE Spec2Model ----
(***************************************************************************)
(* Request encoding of the CQL driver: Execute::serialize                  *)
(* (scylla-cql/src/frame/request/execute.rs) and Options::serialize        *)
(* (scylla-cql/src/frame/request/options.rs).                              *)
(*                                                                         *)
(* A caller (one per thread) owns a growable byte buffer and a request     *)
(* value, reads the request's OPCODE and invokes serialize on its buffer.  *)
(* Execute::serialize is two statements, each of which may return early    *)
(* through `?`; they are the steps ExecWriteId and ExecParams.             *)
(* A byte string (an id, a buffer) is kept run-length encoded: a sequence  *)
(* of runs [n, b], n >= 1 copies of byte b, adjacent runs of different     *)
(* bytes, so that two byte strings are equal iff their encodings are.      *)
(***************************************************************************)
EXTENDS Integers, Sequences, FiniteSets, TLC

VARIABLES
    pc,       \* per caller: "idle", "exec_id", "exec_params", "opt", "returned"
    req,      \* per caller: the request value serialize is invoked on (&self)
    buf,      \* per caller: the buffer handed to serialize (&mut buf)
    result,   \* per caller: the Result returned by the last finished call
    tag,      \* per caller: the OPCODE the caller read for its request
    req0,     \* history: the request as the caller constructed it
    buf0,     \* history: the buffer contents when the current call started
    orig,     \* history: the buffer contents when the buffer was created
    invoked,  \* history: the parameters serializer ran during the current call
    prev,     \* history: outcome of the call a replay repeats
    calls     \* per caller: serialize calls made on the current request

vars == <<pc, req, buf, result, tag, req0, buf0, orig, invoked, prev, calls>>

---------------------------------------------------------------------------
(* Bounds of the model *)

MaxIdLen == 2
MaxParamLen == 1
MaxPreLen == 1
MaxCalls == 2
NumThreads == 2

(* The largest length a [short] length prefix can carry (u16::MAX). *)
U16_MAX == 65535

ByteVals == {2, 170}

SeqsUpTo(S, n) == UNION {[1..k -> S] : k \in 0..n}

(* Byte strings *)
Run(n, b) == [n |-> n, b |-> b]

RECURSIVE BLen(_)
BLen(s) == IF s = <<>> THEN 0 ELSE s[1].n + BLen(Tail(s))

Cat(x, y) ==
    IF x = <<>> THEN y
    ELSE IF y = <<>> THEN x
    ELSE IF x[Len(x)].b = y[1].b
         THEN SubSeq(x, 1, Len(x) - 1)
                  \o <<Run(x[Len(x)].n + y[1].n, y[1].b)>> \o Tail(y)
         ELSE x \o y

RECURSIVE Bytes(_)
Bytes(q) == IF q = <<>> THEN <<>> ELSE Cat(<<Run(1, q[1])>>, Bytes(Tail(q)))

(* Identifiers too long to enumerate, one per length n >= 2: n - 1 bytes  *)
(* 0x02 and a last byte 0xAA.                                             *)
LongId(n) == <<Run(n - 1, 2), Run(1, 170)>>

LongLens == {256, 258, U16_MAX, U16_MAX + 1}

---------------------------------------------------------------------------
(* Results and requests *)

Ok == "Ok"
None == "None"
OversizedField == "OversizedField"
NoPrev == [res |-> None, buf |-> <<>>]
ParamErrs == {"ParamsError", OversizedField}

(* The tag of another request kind pasted into Execute. *)
Execute_OPCODE_pasted == "Options"

Execute_OPCODE == "Execute"
Options_OPCODE == "Options"

Execute(id, parameters) ==
    [kind |-> "Execute", id |-> id, parameters |-> parameters]

Options == [kind |-> "Options"]

OPCODE(r) == IF r.kind = "Execute" THEN Execute_OPCODE ELSE Options_OPCODE

(* A parameters value is known to this layer only through what its        *)
(* serializer does: the bytes it appends and the Result it returns.       *)
QueryParameters(out, err) == [out |-> out, err |-> err]

ParamValues ==
    {QueryParameters(o, e) : o \in {Bytes(q) : q \in SeqsUpTo(ByteVals, MaxParamLen)},
                             e \in {Ok} \cup ParamErrs}

Ids == {Bytes(q) : q \in SeqsUpTo(ByteVals, MaxIdLen)}
           \cup {LongId(n) : n \in LongLens}

Requests == {Execute(i, p) : i \in Ids, p \in ParamValues} \cup {Options}

PreBufs == {Bytes(q) : q \in SeqsUpTo({255}, MaxPreLen)}

ConcRequests ==
    { Execute(Bytes(<<2>>), QueryParameters(Bytes(<<170>>), Ok)),
      Execute(Bytes(<<170, 2>>), QueryParameters(Bytes(<<2>>), "ParamsError")),
      Execute(LongId(U16_MAX + 1), QueryParameters(Bytes(<<170>>), Ok)),
      Options }

ConcPreBufs == {Bytes(<<>>), Bytes(<<255>>)}

---------------------------------------------------------------------------
(* The external primitives Execute::serialize calls *)

put_u16(n, b) == Cat(b, Bytes(<<(n \div 256) % 256, n % 256>>))

write_short_bytes(v, b) ==
    IF BLen(v) > U16_MAX
    THEN [res |-> OversizedField, buf |-> b]
    ELSE [res |-> Ok, buf |-> Cat(put_u16(BLen(v), b), v)]

QueryParameters_serialize(p, b) == [res |-> p.err, buf |-> Cat(b, p.out)]

---------------------------------------------------------------------------
(* The two serialize functions as functions of (self, buffer), run from   *)
(* entry to return without interruption.                                  *)

Execute_serialize(self, b) ==
    LET w == write_short_bytes(self.id, b) IN
        IF w.res # Ok THEN w
        ELSE LET s == QueryParameters_serialize(self.parameters, w.buf) IN
                 IF s.res # Ok THEN s ELSE [res |-> Ok, buf |-> s.buf]

Options_serialize(self, b) == [res |-> Ok, buf |-> b]

serialize(r, b) ==
    IF r.kind = "Execute" THEN Execute_serialize(r, b)
    ELSE Options_serialize(r, b)

---------------------------------------------------------------------------
Threads == 1..NumThreads

InitOn(T) ==
    /\ pc = [t \in T |-> "idle"]
    /\ req = [t \in T |-> Options]
    /\ buf = [t \in T |-> <<>>]
    /\ result = [t \in T |-> None]
    /\ tag = [t \in T |-> None]
    /\ req0 = [t \in T |-> Options]
    /\ buf0 = [t \in T |-> <<>>]
    /\ orig = [t \in T |-> <<>>]
    /\ invoked = [t \in T |-> FALSE]
    /\ prev = [t \in T |-> NoPrev]
    /\ calls = [t \in T |-> 0]

Init == InitOn({1})

ConcInit == InitOn(Threads)

Entry(r) == IF r.kind = "Execute" THEN "exec_id" ELSE "opt"

(* The caller constructs request r and a buffer holding b, reads the      *)
(* request's OPCODE and invokes serialize.                                *)
Call(t, r, b) ==
    /\ pc[t] = "idle"
    /\ pc' = [pc EXCEPT ![t] = Entry(r)]
    /\ req' = [req EXCEPT ![t] = r]
    /\ buf' = [buf EXCEPT ![t] = b]
    /\ result' = [result EXCEPT ![t] = None]
    /\ tag' = [tag EXCEPT ![t] = OPCODE(r)]
    /\ req0' = [req0 EXCEPT ![t] = r]
    /\ buf0' = [buf0 EXCEPT ![t] = b]
    /\ orig' = [orig EXCEPT ![t] = b]
    /\ invoked' = [invoked EXCEPT ![t] = FALSE]
    /\ prev' = [prev EXCEPT ![t] = NoPrev]
    /\ calls' = [calls EXCEPT ![t] = 1]

(* Variants of the first statement of Execute::serialize, each differing  *)
(* from it the way a slip in that statement would.                        *)

(* write_bytes ([int] length prefix) in place of write_short_bytes.       *)
ExecWriteId_write_bytes(t) ==
    /\ pc[t] = "exec_id"
    /\ buf' = [buf EXCEPT ![t] =
                  Cat(put_u16(BLen(req[t].id), put_u16(0, buf[t])), req[t].id)]
    /\ pc' = [pc EXCEPT ![t] = "exec_params"]
    /\ UNCHANGED <<req, result, tag, req0, buf0, orig, invoked, prev, calls>>

(* The `?` dropped: the Result of write_short_bytes is ignored.           *)
ExecWriteId_ignore_err(t) ==
    /\ pc[t] = "exec_id"
    /\ buf' = [buf EXCEPT ![t] = write_short_bytes(req[t].id, buf[t]).buf]
    /\ pc' = [pc EXCEPT ![t] = "exec_params"]
    /\ UNCHANGED <<req, result, tag, req0, buf0, orig, invoked, prev, calls>>

(* The id block goes to one scratch buffer all callers share.             *)
ExecWriteId_shared(t) ==
    /\ pc[t] = "exec_id"
    /\ LET w == write_short_bytes(req[t].id, buf[1]) IN
         /\ buf' = [buf EXCEPT ![1] = w.buf]
         /\ IF w.res # Ok
            THEN /\ result' = [result EXCEPT ![t] = w.res]
                 /\ pc' = [pc EXCEPT ![t] = "returned"]
            ELSE /\ pc' = [pc EXCEPT ![t] = "exec_params"]
                 /\ UNCHANGED result
    /\ UNCHANGED <<req, tag, req0, buf0, orig, invoked, prev, calls>>

(* An empty id is refused.                                                *)
ExecWriteId_reject_empty(t) ==
    /\ pc[t] = "exec_id"
    /\ LET w == IF req[t].id = <<>>
                THEN [res |-> OversizedField, buf |-> buf[t]]
                ELSE write_short_bytes(req[t].id, buf[t]) IN
         /\ buf' = [buf EXCEPT ![t] = w.buf]
         /\ IF w.res # Ok
            THEN /\ result' = [result EXCEPT ![t] = w.res]
                 /\ pc' = [pc EXCEPT ![t] = "returned"]
            ELSE /\ pc' = [pc EXCEPT ![t] = "exec_params"]
                 /\ UNCHANGED result
    /\ UNCHANGED <<req, tag, req0, buf0, orig, invoked, prev, calls>>

(* The id is drained into the buffer (a Buf being advanced) instead of    *)
(* being copied from a borrowed slice.                                    *)
ExecWriteId_consume(t) ==
    /\ pc[t] = "exec_id"
    /\ LET w == write_short_bytes(req[t].id, buf[t]) IN
         /\ buf' = [buf EXCEPT ![t] = w.buf]
         /\ IF w.res # Ok
            THEN /\ result' = [result EXCEPT ![t] = w.res]
                 /\ pc' = [pc EXCEPT ![t] = "returned"]
                 /\ UNCHANGED req
            ELSE /\ pc' = [pc EXCEPT ![t] = "exec_params"]
                 /\ req' = [req EXCEPT ![t].id = <<>>]
                 /\ UNCHANGED result
    /\ UNCHANGED <<tag, req0, buf0, orig, invoked, prev, calls>>

(* execute.rs line 20: types::write_short_bytes(&self.id[..], buf)?;      *)
ExecWriteId(t) ==
    /\ pc[t] = "exec_id"
    /\ LET w == write_short_bytes(req[t].id, buf[t]) IN
         /\ buf' = [buf EXCEPT ![t] = w.buf]
         /\ IF w.res # Ok
            THEN /\ result' = [result EXCEPT ![t] = w.res]
                 /\ pc' = [pc EXCEPT ![t] = "returned"]
            ELSE /\ pc' = [pc EXCEPT ![t] = "exec_params"]
                 /\ UNCHANGED result
    /\ UNCHANGED <<req, tag, req0, buf0, orig, invoked, prev, calls>>

(* Variants of the second statement of Execute::serialize.                *)

(* The Result of the parameters serializer is discarded.                  *)
ExecParams_swallow(t) ==
    /\ pc[t] = "exec_params"
    /\ buf' = [buf EXCEPT ![t] =
                  QueryParameters_serialize(req[t].parameters, buf[t]).buf]
    /\ result' = [result EXCEPT ![t] = Ok]
    /\ invoked' = [invoked EXCEPT ![t] = TRUE]
    /\ pc' = [pc EXCEPT ![t] = "returned"]
    /\ UNCHANGED <<req, tag, req0, buf0, orig, prev, calls>>

(* A failure of the parameters serializer truncates the buffer back to    *)
(* its length before the call.                                            *)
ExecParams_rollback(t) ==
    /\ pc[t] = "exec_params"
    /\ LET s == QueryParameters_serialize(req[t].parameters, buf[t]) IN
         /\ buf' = [buf EXCEPT ![t] = IF s.res # Ok THEN buf0[t] ELSE s.buf]
         /\ result' = [result EXCEPT ![t] = IF s.res # Ok THEN s.res ELSE Ok]
    /\ invoked' = [invoked EXCEPT ![t] = TRUE]
    /\ pc' = [pc EXCEPT ![t] = "returned"]
    /\ UNCHANGED <<req, tag, req0, buf0, orig, prev, calls>>

(* execute.rs lines 23-24: self.parameters.serialize(buf)?; Ok(())        *)
ExecParams(t) ==
    /\ pc[t] = "exec_params"
    /\ LET s == QueryParameters_serialize(req[t].parameters, buf[t]) IN
         /\ buf' = [buf EXCEPT ![t] = s.buf]
         /\ result' = [result EXCEPT ![t] = IF s.res # Ok THEN s.res ELSE Ok]
    /\ invoked' = [invoked EXCEPT ![t] = TRUE]
    /\ pc' = [pc EXCEPT ![t] = "returned"]
    /\ UNCHANGED <<req, tag, req0, buf0, orig, prev, calls>>

(* Variants of Options::serialize.                                        *)

(* An empty [string map] body (a zero [short]) is written.                *)
OptSerialize_empty_map(t) ==
    /\ pc[t] = "opt"
    /\ buf' = [buf EXCEPT ![t] = put_u16(0, buf[t])]
    /\ result' = [result EXCEPT ![t] = Ok]
    /\ pc' = [pc EXCEPT ![t] = "returned"]
    /\ UNCHANGED <<req, tag, req0, buf0, orig, invoked, prev, calls>>

(* The buffer is cleared before the (empty) body is written.              *)
OptSerialize_clear(t) ==
    /\ pc[t] = "opt"
    /\ buf' = [buf EXCEPT ![t] = <<>>]
    /\ result' = [result EXCEPT ![t] = Ok]
    /\ pc' = [pc EXCEPT ![t] = "returned"]
    /\ UNCHANGED <<req, tag, req0, buf0, orig, invoked, prev, calls>>

(* options.rs lines 10-12: fn serialize(&self, _buf) { Ok(()) }           *)
OptSerialize(t) ==
    /\ pc[t] = "opt"
    /\ result' = [result EXCEPT ![t] = Ok]
    /\ pc' = [pc EXCEPT ![t] = "returned"]
    /\ UNCHANGED <<req, buf, tag, req0, buf0, orig, invoked, prev, calls>>

(* The caller invokes serialize again on the same request value and the   *)
(* same buffer, as it stands after the previous call.                     *)
Again(t) ==
    /\ pc[t] = "returned"
    /\ calls[t] < MaxCalls
    /\ pc' = [pc EXCEPT ![t] = Entry(req[t])]
    /\ tag' = [tag EXCEPT ![t] = OPCODE(req[t])]
    /\ result' = [result EXCEPT ![t] = None]
    /\ buf0' = [buf0 EXCEPT ![t] = buf[t]]
    /\ invoked' = [invoked EXCEPT ![t] = FALSE]
    /\ prev' = [prev EXCEPT ![t] = NoPrev]
    /\ calls' = [calls EXCEPT ![t] = calls[t] + 1]
    /\ UNCHANGED <<req, buf, req0, orig>>

(* The caller invokes serialize again on the same request value with a    *)
(* fresh buffer holding what the buffer of the previous call held when    *)
(* that call started; the previous outcome is remembered.                 *)
Replay(t) ==
    /\ pc[t] = "returned"
    /\ calls[t] < MaxCalls
    /\ pc' = [pc EXCEPT ![t] = Entry(req[t])]
    /\ tag' = [tag EXCEPT ![t] = OPCODE(req[t])]
    /\ prev' = [prev EXCEPT ![t] = [res |-> result[t], buf |-> buf[t]]]
    /\ result' = [result EXCEPT ![t] = None]
    /\ buf' = [buf EXCEPT ![t] = buf0[t]]
    /\ invoked' = [invoked EXCEPT ![t] = FALSE]
    /\ calls' = [calls EXCEPT ![t] = calls[t] + 1]
    /\ UNCHANGED <<req, req0, buf0, orig>>

(* The caller takes the outcome and lets go of request and buffer.        *)
Drop(t) ==
    /\ pc[t] = "returned"
    /\ pc' = [pc EXCEPT ![t] = "idle"]
    /\ req' = [req EXCEPT ![t] = Options]
    /\ buf' = [buf EXCEPT ![t] = <<>>]
    /\ result' = [result EXCEPT ![t] = None]
    /\ tag' = [tag EXCEPT ![t] = None]
    /\ req0' = [req0 EXCEPT ![t] = Options]
    /\ buf0' = [buf0 EXCEPT ![t] = <<>>]
    /\ orig' = [orig EXCEPT ![t] = <<>>]
    /\ invoked' = [invoked EXCEPT ![t] = FALSE]
    /\ prev' = [prev EXCEPT ![t] = NoPrev]
    /\ calls' = [calls EXCEPT ![t] = 0]

Next ==
    \/ \E t \in DOMAIN pc, r \in Requests, b \in PreBufs : Call(t, r, b)
    \/ \E t \in DOMAIN pc : ExecWriteId(t)
    \/ \E t \in DOMAIN pc : ExecParams(t)
    \/ \E t \in DOMAIN pc : OptSerialize(t)
    \/ \E t \in DOMAIN pc : Again(t)
    \/ \E t \in DOMAIN pc : Replay(t)
    \/ \E t \in DOMAIN pc : Drop(t)

Spec == Init /\ [][Next]_vars

(* Several threads, each with its own request and buffer.                 *)
ConcNext ==
    \/ \E t \in DOMAIN pc, r \in ConcRequests, b \in ConcPreBufs : Call(t, r, b)
    \/ \E t \in DOMAIN pc : ExecWriteId(t)
    \/ \E t \in DOMAIN pc : ExecParams(t)
    \/ \E t \in DOMAIN pc : OptSerialize(t)
    \/ \E t \in DOMAIN pc : Drop(t)

ConcSpec == ConcInit /\ [][ConcNext]_vars

---------------------------------------------------------------------------
(* Properties *)

(* x is a prefix of y, as byte strings: the runs of x but the last are    *)
(* runs of y, and the last is the start of the run of y at its place.     *)
IsPrefix(x, y) ==
    \/ x = <<>>
    \/ /\ Len(x) <= Len(y)
       /\ SubSeq(x, 1, Len(x) - 1) = SubSeq(y, 1, Len(x) - 1)
       /\ x[Len(x)].b = y[Len(x)].b
       /\ x[Len(x)].n <= y[Len(x)].n

(* The layout of a length-prefixed id block followed by trailing bytes.   *)
Layout(pre, id, rest) ==
    Cat(Cat(Cat(pre, Bytes(<<BLen(id) \div 256, BLen(id) % 256>>)), id), rest)

Returned(t) == pc[t] = "returned"

ReturnedExecute(t) == pc[t] = "returned" /\ req[t].kind = "Execute"

Fits(t) == BLen(req[t].id) <= U16_MAX

(* C1: whenever Execute::serialize has returned for an id of N <= 65535   *)
(* bytes whose parameters serializer succeeds, the result is Ok and the   *)
(* buffer is its pre-call contents followed by exactly the big-endian     *)
(* 16-bit N, the N id bytes in order, and the bytes the parameters        *)
(* serializer produces on an empty buffer.                                *)
C1_ExecuteLayout ==
    \A t \in DOMAIN pc :
        (ReturnedExecute(t) /\ Fits(t) /\ req[t].parameters.err = Ok) =>
            /\ result[t] = Ok
            /\ buf[t] = Layout(buf0[t], req[t].id,
                   QueryParameters_serialize(req[t].parameters, <<>>).buf)

C1_Witness ==
    \E t \in DOMAIN pc :
        /\ ReturnedExecute(t)
        /\ BLen(req[t].id) = U16_MAX
        /\ req[t].parameters.err = Ok
        /\ req[t].parameters.out # <<>>
        /\ buf0[t] # <<>>
        /\ result[t] = Ok

(* C2: whenever Execute::serialize has returned for an id longer than     *)
(* 65535 bytes, the result is the oversized-field error, the parameters   *)
(* serializer was not invoked and the buffer holds no byte it did not     *)
(* hold before the call.                                                  *)
C2_OversizedId ==
    \A t \in DOMAIN pc :
        (ReturnedExecute(t) /\ ~Fits(t)) =>
            /\ result[t] = OversizedField
            /\ ~invoked[t]
            /\ buf[t] = buf0[t]

C2_Witness ==
    \E t \in DOMAIN pc :
        /\ ReturnedExecute(t)
        /\ BLen(req[t].id) = U16_MAX + 1
        /\ req[t].parameters.out # <<>>
        /\ result[t] = OversizedField

(* C3: Options::serialize returns Ok and the buffer is what it was when   *)
(* the buffer was created, whatever it held and however many times        *)
(* serialize has been invoked on it.                                      *)
C3_OptionsNoOp ==
    \A t \in DOMAIN pc :
        (req[t].kind = "Options" /\ pc[t] # "idle") =>
            /\ buf[t] = orig[t]
            /\ Returned(t) => result[t] = Ok

C3_Witness ==
    \E t \in DOMAIN pc :
        /\ Returned(t)
        /\ req[t].kind = "Options"
        /\ calls[t] >= 2
        /\ orig[t] # <<>>
        /\ result[t] = Ok

(* C4: when the id fits and the parameters serializer fails with E,       *)
(* Execute::serialize returns E itself; and Execute::serialize returns an *)
(* error only when the id is oversized or the parameters serializer       *)
(* failed.                                                                *)
C4_ErrorPropagation ==
    \A t \in DOMAIN pc :
        ReturnedExecute(t) =>
            /\ (Fits(t) /\ req[t].parameters.err # Ok) =>
                   result[t] = req[t].parameters.err
            /\ result[t] # Ok =>
                   (~Fits(t) \/ req[t].parameters.err # Ok)

C4_Witness ==
    \E t \in DOMAIN pc :
        /\ ReturnedExecute(t)
        /\ Fits(t)
        /\ req[t].parameters.err = "ParamsError"
        /\ result[t] = "ParamsError"

(* C5: at every point of every call, of either variant, successful or     *)
(* not, the buffer contents before the call are a prefix of the buffer.   *)
C5_AppendOnly ==
    \A t \in DOMAIN pc :
        /\ IsPrefix(buf0[t], buf[t])
        /\ IsPrefix(orig[t], buf0[t])

C5_Witness ==
    \E t \in DOMAIN pc :
        /\ ReturnedExecute(t)
        /\ buf0[t] # <<>>
        /\ BLen(buf[t]) > BLen(buf0[t])
        /\ result[t] # Ok

(* C6: the tag read for an Execute request is always Execute, the tag     *)
(* read for an Options request is always Options, the two differ, and     *)
(* neither depends on the request's fields or on earlier calls.           *)
C6_FixedTags ==
    /\ "Execute" # "Options"
    /\ \A t \in DOMAIN pc :
           pc[t] # "idle" =>
               /\ req[t].kind = "Execute" => tag[t] = "Execute"
               /\ req[t].kind = "Options" => tag[t] = "Options"

C6_Witness ==
    \E t \in DOMAIN pc :
        /\ ReturnedExecute(t)
        /\ calls[t] >= 2
        /\ req[t].id # <<>>
        /\ tag[t] = "Execute"

(* C7: with several threads each serializing its own request into its     *)
(* own buffer, in any interleaving of their steps, every call's result    *)
(* and final buffer are those of that call run alone, its request is as   *)
(* constructed, and a buffer not yet written by its own call is as its    *)
(* caller made it.                                                        *)
C7_Isolation ==
    \A t \in DOMAIN pc :
        /\ req[t] = req0[t]
        /\ pc[t] \in {"exec_id", "opt"} => buf[t] = buf0[t]
        /\ pc[t] = "exec_params" =>
               buf[t] = write_short_bytes(req0[t].id, buf0[t]).buf
        /\ Returned(t) =>
               /\ result[t] = serialize(req0[t], buf0[t]).res
               /\ buf[t] = serialize(req0[t], buf0[t]).buf

C7_Witness ==
    \E t, u \in DOMAIN pc :
        /\ t # u
        /\ ReturnedExecute(t)
        /\ result[t] = "ParamsError"
        /\ pc[u] = "exec_params"
        /\ req[u] # req[t]
        /\ buf0[u] # buf0[t]

(* C8: when the id fits and the parameters serializer fails, nothing is   *)
(* rolled back: the buffer is its pre-call contents, then the complete    *)
(* length-prefixed id block, then the bytes the parameters serializer     *)
(* appended before failing.                                               *)
C8_NoRollback ==
    \A t \in DOMAIN pc :
        (ReturnedExecute(t) /\ Fits(t) /\ req[t].parameters.err # Ok) =>
            buf[t] = Layout(buf0[t], req[t].id, req[t].parameters.out)

C8_Witness ==
    \E t \in DOMAIN pc :
        /\ ReturnedExecute(t)
        /\ req[t].parameters.err # Ok
        /\ req[t].parameters.out # <<>>
        /\ req[t].id # <<>>
        /\ Fits(t)
        /\ buf0[t] # <<>>
        /\ result[t] # Ok

(* C9: an empty id is not rejected: the call appends 0x00 0x00, no id     *)
(* bytes, then the parameters bytes, and its result is that of the        *)
(* parameters serializer.                                                 *)
C9_EmptyId ==
    \A t \in DOMAIN pc :
        (ReturnedExecute(t) /\ req0[t].id = <<>>) =>
            /\ result[t] = req[t].parameters.err
            /\ buf[t] = Cat(Cat(buf0[t], <<Run(2, 0)>>), req[t].parameters.out)

C9_Witness ==
    \E t \in DOMAIN pc :
        /\ ReturnedExecute(t)
        /\ req0[t].id = <<>>
        /\ req[t].parameters.out # <<>>
        /\ result[t] = Ok

(* C10: a call leaves the Execute value as it was constructed, and        *)
(* serializing the same value again into a buffer with the same initial   *)
(* contents gives the same result and the same final buffer.              *)
C10_ReadOnlyRequest ==
    \A t \in DOMAIN pc :
        req0[t].kind = "Execute" =>
            /\ req[t] = req0[t]
            /\ (Returned(t) /\ prev[t].res # None) =>
                   /\ result[t] = prev[t].res
                   /\ buf[t] = prev[t].buf

C10_Witness ==
    \E t \in DOMAIN pc :
        /\ ReturnedExecute(t)
        /\ prev[t].res = "ParamsError"
        /\ BLen(buf[t]) > BLen(buf0[t])

====
